---- MODULE Spec2Model ----
(***************************************************************************)
(* SDFDiffusion (sparsity_network/sparsity_model.py): construction, the    *)
(* training loss with its batched forward corruption, the sampling         *)
(* timestep schedule and the DDPM / DDIM reverse samplers.                  *)
(*                                                                         *)
(* Numbers.  A real value x is the integer x * Scale (fixed point); a      *)
(* diffusion time is the exact fraction <<num, den>>; a log-SNR is an      *)
(* integer in base-2 units, so that SNR = 2^log_snr.  A field is a         *)
(* sequence of rows, one fixed-point value per row.  An entry of the loss  *)
(* tensor is Num(v) or NaN.                                                *)
(***************************************************************************)
EXTENDS Integers, Sequences, FiniteSets, TLC

VARIABLES
    noise_schedule,   \* the constructor's noise_schedule argument
    status,           \* "new", "bound" (schedule chosen), "ready", "error"
    log_snr,          \* self.log_snr: "unbound" or the bound schedule function
    denoise_fn,       \* self.denoise_fn: "none" or the network created
    pc,               \* position of the call in progress
    octree,           \* the call's octree: [batch_size, batch_id]
    x_start,          \* training_loss: the clean field
    times,            \* training_loss: one sampled time per batch element
    xt_list,          \* training_loss: the list x_t of per-element blocks
    x_t,              \* training_loss: the concatenated noised field
    pred,             \* training_loss: the network's prediction
    loss,             \* training_loss: the loss tensor
    i,                \* training_loss: index of the running for loop
    data,             \* sample: the reference field
    use_ddim,         \* sample: the sampler chosen
    steps,            \* sample: number of steps
    truncated_index,  \* sample: the truncation threshold (a fraction)
    time_pairs,       \* the sampler's time pairs
    k,                \* number of time pairs the sampler has consumed
    noise_feature,    \* the sampler's current field
    trace,            \* one record per sampler transition made
    draws,            \* the random tensors the call has drawn, in order
    result,           \* the value the call returned
    prev              \* the previous sample call: its inputs, trace and result

vars == <<noise_schedule, status, log_snr, denoise_fn, pc, octree, x_start,
          times, xt_list, x_t, pred, loss, i, data, use_ddim, steps,
          truncated_index, time_pairs, k, noise_feature, trace, draws,
          result, prev>>

objVars == <<noise_schedule, status, log_snr, denoise_fn>>
trainVars == <<x_start, times, xt_list, x_t, pred, loss, i>>
sampleVars == <<data, use_ddim, steps, truncated_index, time_pairs, k,
                noise_feature, trace>>

----------------------------------------------------------------------------
(* Bounds of the model *)

MaxSteps == 3          \* sample is called with steps in 0 .. MaxSteps
MaxRows == 2           \* a sampled field has 1 .. MaxRows rows
MaxNodes == 3          \* a training octree has 1 .. MaxNodes rows
MaxBatch == 2          \* an octree packs 1 .. MaxBatch batch elements
Scale == 16            \* fixed-point resolution: the value 1.0
LogSnrMax == 4         \* the schedules range over log-SNR -LogSnrMax .. LogSnrMax
PairRows == 2          \* rows of the field when sample is called twice
PairSteps == 2         \* steps in 0 .. PairSteps when sample is called twice

(* The floor of sigma in ddim_sample, 1e-8: the least positive value. *)
SigmaFloor == 1

Num(v) == [nan |-> FALSE, val |-> v]
NaN == [nan |-> TRUE, val |-> 0]

----------------------------------------------------------------------------
(* Arithmetic *)

Max(a, b) == IF a >= b THEN a ELSE b
Min(a, b) == IF a <= b THEN a ELSE b

\* torch.sqrt on a non-negative fixed-point value with units 1 / Scale^2
ISqrt(n) == CHOOSE r \in 0 .. n : r * r <= n /\ n < (r + 1) * (r + 1)

\* a > b for fractions with positive denominators
Gt(a, b) == a[1] * b[2] > b[1] * a[2]

IsOne(t) == t[1] = t[2]
IsZero(t) == t[1] = 0

RECURSIVE SumSeq(_)
SumSeq(s) == IF s = <<>> THEN 0 ELSE Head(s) + SumSeq(Tail(s))

RECURSIVE Concat(_)
Concat(blocks) == IF blocks = <<>> THEN <<>> ELSE Head(blocks) \o Concat(Tail(blocks))

----------------------------------------------------------------------------
(* Inputs *)

Schedules == {"linear", "cosine", "sigmoid"}
Networks == {"copy", "amp", "mix"}
NoiseVals == {-Scale, Scale}
DataVals == {0, Scale \div 4}
TruncSet == {<<-1, 1>>, <<0, 1>>, <<1, 2>>}

\* the clean or reference fields of n rows the calls are given
Fields(n) == { [r \in 1 .. n |-> v * r] : v \in DataVals }

\* torch.randn_like(x): a standard normal draw per element of x; the draws
\* taken are the fields of alternating sign of the values NoiseVals
Randn(n) == { [r \in 1 .. n |-> IF r % 2 = 1 THEN v ELSE -v] : v \in NoiseVals }

\* octree handles of up to n rows: batch_id gives each row's batch element,
\* in any order, and a batch element may own no row
OctreesOf(n) ==
    UNION { { [batch_size |-> b, batch_id |-> ids] :
                ids \in UNION { [1 .. m -> 0 .. b - 1] : m \in 1 .. n } } :
            b \in 1 .. MaxBatch }

Octrees == OctreesOf(MaxNodes)

\* sampling runs one octree batch on one diffusion clock
SampleOctrees == { o \in OctreesOf(MaxRows) : o.batch_size = 1 }

\* uniform_(0, 1) draws from [0, 1)
TrainTimes == { <<0, 1>>, <<1, 2>> }

NRows(o) == Len(o.batch_id)

----------------------------------------------------------------------------
(* Noise schedule (network/model_utils.py) *)

\* beta_linear_log_snr / alpha_cosine_log_snr: high at time 0, low at time 1
LogSnr(f, t) ==
    IF f = "beta_linear_log_snr"
    THEN LogSnrMax - (2 * LogSnrMax * t[1]) \div t[2]
    ELSE LogSnrMax - (2 * LogSnrMax * t[1] * t[1]) \div (t[2] * t[2])

\* sigmoid(l) = 2^l / (1 + 2^l), in units 1 / Scale^2
Sigmoid(l) ==
    IF l >= 0 THEN (Scale * Scale * 2^l) \div (1 + 2^l)
    ELSE (Scale * Scale) \div (1 + 2^(-l))

\* log_snr_to_alpha_sigma: <<sqrt(sigmoid(l)), sqrt(sigmoid(-l))>>
LogSnrToAlphaSigma(l) == <<ISqrt(Sigmoid(l)), ISqrt(Sigmoid(-l))>>

\* torch.special.expm1(d) = 2^d - 1
Expm1(d) == (IF d >= 0 THEN Scale * 2^d ELSE Scale \div 2^(-d)) - Scale

----------------------------------------------------------------------------
(* The denoising network (sparsity_network/unet.py): an opaque function of  *)
(* the field, the noise level and the octree, keeping the row layout.      *)

Denoise(net, x, level, o) ==
    CASE net = "copy" -> x
      [] net = "amp" -> [r \in DOMAIN x |-> 3 * x[r]]
      [] OTHER -> [r \in DOMAIN x |-> x[Len(x) + 1 - r] + level[1]]

----------------------------------------------------------------------------
(* Construction *)

\* no call made yet
NoCall ==
    /\ pc = "idle"
    /\ octree = [batch_size |-> 1, batch_id |-> <<0>>]
    /\ x_start = <<>> /\ times = <<>> /\ xt_list = <<>> /\ x_t = <<>>
    /\ pred = <<>> /\ loss = <<>> /\ i = 0
    /\ data = <<>> /\ use_ddim = FALSE /\ steps = 0
    /\ truncated_index = <<0, 1>>
    /\ time_pairs = <<>> /\ k = 0 /\ noise_feature = <<>> /\ trace = <<>>
    /\ draws = <<>>
    /\ result = <<>>
    /\ prev = <<>>

Init ==
    /\ noise_schedule \in Schedules
    /\ status = "new"
    /\ log_snr = "unbound"
    /\ denoise_fn = "none"
    /\ NoCall

\* an else branch that falls back to the linear schedule instead of raising
ScheduleForDefault(name) ==
    IF name = "cosine" THEN "alpha_cosine_log_snr" ELSE "beta_linear_log_snr"

\* lines 29-34: the schedule a noise_schedule value binds, "error" for a raise
ScheduleFor(name) ==
    IF name = "linear" THEN "beta_linear_log_snr"
    ELSE IF name = "cosine" THEN "alpha_cosine_log_snr"
    ELSE "error"

\* __init__, lines 23-34
BindSchedule ==
    /\ status = "new"
    /\ IF ScheduleFor(noise_schedule) = "error"
       THEN /\ status' = "error"
            /\ UNCHANGED log_snr
       ELSE /\ status' = "bound"
            /\ log_snr' = ScheduleFor(noise_schedule)
    /\ UNCHANGED <<noise_schedule, denoise_fn, pc, octree, trainVars, sampleVars,
                   draws, result, prev>>

\* __init__, lines 36-38
CreateNetwork ==
    /\ status = "bound"
    /\ \E net \in Networks : denoise_fn' = net
    /\ status' = "ready"
    /\ UNCHANGED <<noise_schedule, log_snr, pc, octree, trainVars, sampleVars,
                   draws, result, prev>>

----------------------------------------------------------------------------
(* training_loss *)

RECURSIVE MaskFrom(_, _, _)
\* the rows r >= from with ids[r] = e, ascending: the mask batch_id == e
MaskFrom(ids, e, from) ==
    IF from > Len(ids) THEN <<>>
    ELSE (IF ids[from] = e THEN <<from>> ELSE <<>>) \o MaskFrom(ids, e, from + 1)

Mask(o, e) == MaskFrom(o.batch_id, e, 1)

\* line 49
NoiseLevel == [b \in DOMAIN times |-> LogSnr(log_snr, times[b])]

\* line 55, one element: feature * alpha + sigma * noise
Corrupt(feature, alpha, sigma, eps) == (feature * alpha) \div Scale + (sigma * eps) \div Scale

Vals(rows) == [r \in DOMAIN rows |-> rows[r].val]

\* lines 45-51
TrainingLoss ==
    /\ status = "ready" /\ pc = "idle"
    /\ \E o \in Octrees :
        \E x \in Fields(NRows(o)), ts \in [1 .. o.batch_size -> TrainTimes] :
            /\ octree' = o
            /\ x_start' = x
            /\ times' = ts
            /\ draws' = <<ts>>
    /\ xt_list' = <<>>
    /\ i' = 0
    /\ pc' = "corrupt"
    /\ UNCHANGED <<objVars, x_t, pred, loss, sampleVars, result, prev>>

\* lines 52-55, one iteration: the block of batch element i.  Each row keeps
\* the index src of the x_start row it was computed from and its noise eps.
CorruptStep ==
    /\ pc = "corrupt" /\ i < octree.batch_size
    /\ LET idx == Mask(octree, i)
           as == LogSnrToAlphaSigma(NoiseLevel[i + 1])
       IN \E eps \in Randn(Len(idx)) :
            /\ xt_list' = Append(xt_list,
                   [j \in DOMAIN idx |->
                       [val |-> Corrupt(x_start[idx[j]], as[1], as[2], eps[j]),
                        src |-> idx[j], eps |-> eps[j]]])
            /\ draws' = Append(draws, eps)
    /\ i' = i + 1
    /\ UNCHANGED <<objVars, pc, octree, x_start, times, x_t, pred, loss,
                   sampleVars, result, prev>>

\* lines 57-62
Predict ==
    /\ pc = "corrupt" /\ i = octree.batch_size
    /\ x_t' = Concat(xt_list)
    /\ pred' = Denoise(denoise_fn, Vals(x_t'), NoiseLevel, octree)
    /\ loss' = [b \in 1 .. octree.batch_size |-> Num(0)]
    /\ i' = 0
    /\ pc' = "reduce"
    /\ UNCHANGED <<objVars, octree, x_start, times, xt_list, sampleVars, draws,
                   result, prev>>

\* line 61, one row
SqErr(p, x) == ((p - x) * (p - x)) \div Scale

\* tensor.mean(): nan for no element
MeanOf(s) == IF s = <<>> THEN NaN ELSE Num(SumSeq(s) \div Len(s))

\* line 64
ElementLoss(o, p, x, e) ==
    LET idx == Mask(o, e)
    IN MeanOf([j \in DOMAIN idx |-> SqErr(p[idx[j]], x[idx[j]])])

\* lines 63-64, one iteration
ReduceStep ==
    /\ pc = "reduce" /\ i < octree.batch_size
    /\ loss' = [loss EXCEPT ![i + 1] = ElementLoss(octree, pred, x_start, i)]
    /\ i' = i + 1
    /\ UNCHANGED <<objVars, pc, octree, x_start, times, xt_list, x_t, pred,
                   sampleVars, draws, result, prev>>

\* line 66
TrainReturn ==
    /\ pc = "reduce" /\ i = octree.batch_size
    /\ result' = loss
    /\ pc' = "train_done"
    /\ UNCHANGED <<objVars, octree, trainVars, sampleVars, draws, prev>>

----------------------------------------------------------------------------
(* get_sampling_timesteps *)

\* torch.linspace(1., 0., n), n >= 1
Linspace(n) ==
    IF n = 1 THEN << <<1, 1>> >>
    ELSE [j \in 1 .. n |-> <<n - j, n - 1>>]

\* einops.repeat(times, 't -> b t', b = batch)
Repeat(ts, batch) == [b \in 1 .. batch |-> ts]

\* linspace over steps points instead of steps + 1
GetSamplingTimestepsShort(batch, n) ==
    LET ts == Repeat(Linspace(n), batch)
        first == [b \in 1 .. batch |-> SubSeq(ts[b], 1, Len(ts[b]) - 1)]
        second == [b \in 1 .. batch |-> SubSeq(ts[b], 2, Len(ts[b]))]
    IN [j \in 1 .. Len(first[1]) |->
           << [b \in 1 .. batch |-> first[b][j]],
              [b \in 1 .. batch |-> second[b][j]] >>]

\* lines 70-74: the tuple of (time, time_next), each of shape (batch,)
GetSamplingTimesteps(batch, n) ==
    LET ts == Repeat(Linspace(n + 1), batch)
        first == [b \in 1 .. batch |-> SubSeq(ts[b], 1, Len(ts[b]) - 1)]
        second == [b \in 1 .. batch |-> SubSeq(ts[b], 2, Len(ts[b]))]
    IN [j \in 1 .. Len(first[1]) |->
           << [b \in 1 .. batch |-> first[b][j]],
              [b \in 1 .. batch |-> second[b][j]] >>]

----------------------------------------------------------------------------
(* Samplers *)

\* the clamp left out
ClampNone(x) == x

\* x_start.clamp_(-1, 1)
Clamp(x) == [r \in DOMAIN x |-> Max(-Scale, Min(Scale, x[r]))]

\* lines 95-98 and 130-133: the prediction, clamped
XStart(field, ls) == Clamp(Denoise(denoise_fn, field, <<ls>>, octree))

\* line 100
C(ls, ls_next) == -Expm1(ls - ls_next)

\* line 102
Mean(x, x0, alpha, alpha_next, c) ==
    [r \in DOMAIN x |->
        (alpha_next * ((x[r] * (Scale - c)) \div alpha + (c * x0[r]) \div Scale))
            \div Scale]

\* line 104, in units 1 / Scale^2
Variance(sigma_next, c) == (sigma_next * sigma_next * c) \div Scale

\* >= in place of >
InjectGe(time_next, trunc) == ~Gt(trunc, time_next)

\* line 105
Inject(time_next, trunc) == Gt(time_next, trunc)

\* lines 106-107
Noised(mean, variance, eps) ==
    [r \in DOMAIN mean |-> mean[r] + (ISqrt(variance) * eps[r]) \div Scale]

\* lines 134-135
PredNoise(x, x0, alpha, sigma) ==
    [r \in DOMAIN x |->
        ((x[r] - (alpha * x0[r]) \div Scale) * Scale) \div Max(sigma, SigmaFloor)]

\* line 137
DdimUpdate(x0, pn, alpha_next, sigma_next) ==
    [r \in DOMAIN x0 |-> (x0[r] * alpha_next + pn[r] * sigma_next) \div Scale]

\* noise added onto the reference values
InitialNoiseOnData(d, eps) == [r \in DOMAIN d |-> d[r] + eps[r]]

\* line 143: torch.randn_like(data), given the draw eps
InitialNoise(d, eps) == eps

\* sample(d, o, ddim, n, tr), lines 143-145 with the draw eps, into the
\* sampler chosen up to its loop (lines 81-87 or 116-122)
SampleCall(d, o, ddim, n, tr, eps) ==
    /\ octree' = o
    /\ data' = d
    /\ use_ddim' = ddim
    /\ steps' = n
    /\ truncated_index' = tr
    /\ noise_feature' = InitialNoise(d, eps)
    /\ draws' = <<eps>>
    /\ time_pairs' = GetSamplingTimesteps(1, n)
    /\ k' = 0
    /\ trace' = <<>>
    /\ pc' = IF ddim THEN "ddim_loop" ELSE "ddpm_loop"

Sample ==
    /\ status = "ready" /\ pc = "idle"
    /\ \E o \in SampleOctrees, ddim \in BOOLEAN, n \in 0 .. MaxSteps, tr \in TruncSet :
        \E d \in Fields(NRows(o)) :
        \E eps \in Randn(Len(d)) :
            SampleCall(d, o, ddim, n, tr, eps)
    /\ UNCHANGED <<objVars, trainVars, result, prev>>

\* a loop that stops one pair early
LoopDoneEarly == k + 1 >= Len(time_pairs)

\* the for loops of lines 88 and 123 have consumed every pair
LoopDone == k >= Len(time_pairs)

\* ddpm_sample, one iteration of the loop: lines 88-109
DdpmStep ==
    /\ pc = "ddpm_loop" /\ ~LoopDone
    /\ LET time == time_pairs[k + 1][1][1]
           time_next == time_pairs[k + 1][2][1]
           ls == LogSnr(log_snr, time)
           ls_next == LogSnr(log_snr, time_next)
           as == LogSnrToAlphaSigma(ls)
           as_next == LogSnrToAlphaSigma(ls_next)
           x0 == XStart(noise_feature, ls)
           c == C(ls, ls_next)
           mean == Mean(noise_feature, x0, as[1], as_next[1], c)
           step == [time |-> time, time_next |-> time_next, input |-> noise_feature,
                    x_start |-> x0, mean |-> mean]
       IN IF Inject(time_next, truncated_index)
          THEN \E eps \in Randn(Len(noise_feature)) :
                 /\ noise_feature' = Noised(mean, Variance(as_next[2], c), eps)
                 /\ draws' = Append(draws, eps)
                 /\ trace' = Append(trace, [step EXCEPT !.mean = mean] @@
                                 [drew |-> TRUE, out |-> noise_feature'])
          ELSE /\ noise_feature' = mean
               /\ draws' = draws
               /\ trace' = Append(trace, step @@ [drew |-> FALSE, out |-> mean])
    /\ k' = k + 1
    /\ UNCHANGED <<objVars, trainVars, pc, octree, data, use_ddim, steps,
                   truncated_index, time_pairs, result, prev>>

\* a DDIM step that adds Gaussian noise to its update
DdimStepNoisy ==
    /\ pc = "ddim_loop" /\ ~LoopDone
    /\ LET time == time_pairs[k + 1][1][1]
           time_next == time_pairs[k + 1][2][1]
           ls == LogSnr(log_snr, time)
           as == LogSnrToAlphaSigma(ls)
           as_next == LogSnrToAlphaSigma(LogSnr(log_snr, time_next))
           x0 == XStart(noise_feature, ls)
           out == DdimUpdate(x0, PredNoise(noise_feature, x0, as[1], as[2]),
                             as_next[1], as_next[2])
       IN \E eps \in Randn(Len(noise_feature)) :
            /\ noise_feature' = [r \in DOMAIN out |-> out[r] + eps[r]]
            /\ draws' = Append(draws, eps)
            /\ trace' = Append(trace,
                   [time |-> time, time_next |-> time_next, input |-> noise_feature,
                    x_start |-> x0, mean |-> out, drew |-> TRUE, out |-> noise_feature'])
    /\ k' = k + 1
    /\ UNCHANGED <<objVars, trainVars, pc, octree, data, use_ddim, steps,
                   truncated_index, time_pairs, result, prev>>

\* a DDIM step that takes over the DDPM truncation: below the threshold it
\* keeps only the signal term
DdimStepTruncated ==
    /\ pc = "ddim_loop" /\ ~LoopDone
    /\ LET time == time_pairs[k + 1][1][1]
           time_next == time_pairs[k + 1][2][1]
           ls == LogSnr(log_snr, time)
           as == LogSnrToAlphaSigma(ls)
           as_next == LogSnrToAlphaSigma(LogSnr(log_snr, time_next))
           x0 == XStart(noise_feature, ls)
           pn == PredNoise(noise_feature, x0, as[1], as[2])
           out == IF Gt(time_next, truncated_index)
                  THEN DdimUpdate(x0, pn, as_next[1], as_next[2])
                  ELSE DdimUpdate(x0, pn, as_next[1], 0)
       IN /\ noise_feature' = out
          /\ trace' = Append(trace,
                 [time |-> time, time_next |-> time_next, input |-> noise_feature,
                  x_start |-> x0, mean |-> out, drew |-> FALSE, out |-> out])
    /\ k' = k + 1
    /\ UNCHANGED <<objVars, trainVars, pc, octree, data, use_ddim, steps,
                   truncated_index, time_pairs, draws, result, prev>>

\* ddim_sample, one iteration of the loop: lines 123-137
DdimStep ==
    /\ pc = "ddim_loop" /\ ~LoopDone
    /\ LET time == time_pairs[k + 1][1][1]
           time_next == time_pairs[k + 1][2][1]
           ls == LogSnr(log_snr, time)
           ls_next == LogSnr(log_snr, time_next)
           as == LogSnrToAlphaSigma(ls)
           as_next == LogSnrToAlphaSigma(ls_next)
           x0 == XStart(noise_feature, ls)
           pn == PredNoise(noise_feature, x0, as[1], as[2])
           out == DdimUpdate(x0, pn, as_next[1], as_next[2])
       IN /\ noise_feature' = out
          /\ trace' = Append(trace,
                 [time |-> time, time_next |-> time_next, input |-> noise_feature,
                  x_start |-> x0, mean |-> out, drew |-> FALSE, out |-> out])
    /\ k' = k + 1
    /\ UNCHANGED <<objVars, trainVars, pc, octree, data, use_ddim, steps,
                   truncated_index, time_pairs, draws, result, prev>>

\* lines 111 and 139
SampleReturn ==
    /\ pc \in {"ddpm_loop", "ddim_loop"} /\ LoopDone
    /\ result' = noise_feature
    /\ pc' = "sample_done"
    /\ UNCHANGED <<objVars, trainVars, octree, sampleVars, draws, prev>>

Next ==
    \/ BindSchedule
    \/ CreateNetwork
    \/ TrainingLoss
    \/ CorruptStep
    \/ Predict
    \/ ReduceStep
    \/ TrainReturn
    \/ Sample
    \/ DdpmStep
    \/ DdimStep
    \/ SampleReturn

Spec == Init /\ [][Next]_vars

----------------------------------------------------------------------------
(* Two sample calls, one after the other, on one constructed model *)

PairInit ==
    /\ noise_schedule \in {"linear", "cosine"}
    /\ status = "ready"
    /\ log_snr = ScheduleFor(noise_schedule)
    /\ denoise_fn \in Networks
    /\ NoCall

\* the first call of sample
SampleFirst ==
    /\ status = "ready" /\ pc = "idle"
    /\ \E o \in SampleOctrees, ddim \in BOOLEAN, n \in 0 .. PairSteps, tr \in TruncSet :
        /\ NRows(o) <= PairRows
        /\ \E d \in Fields(NRows(o)) :
           \E eps \in Randn(Len(d)) :
               SampleCall(d, o, ddim, n, tr, eps)
    /\ UNCHANGED <<objVars, trainVars, result, prev>>

\* a second call of sample on the same octree, with the same use_ddim and
\* steps: any reference field of the same shape, any truncated_index, its
\* own random draws.  prev keeps the first call.
SampleAgain ==
    /\ pc = "sample_done" /\ prev = <<>>
    /\ prev' = << [data |-> data, truncated_index |-> truncated_index,
                   draws |-> draws, trace |-> trace, result |-> result] >>
    /\ \E tr \in TruncSet :
       \E d \in Fields(NRows(octree)) :
       \E eps \in Randn(Len(d)) :
           SampleCall(d, octree, use_ddim, steps, tr, eps)
    /\ UNCHANGED <<objVars, trainVars, result>>

PairNext ==
    \/ SampleFirst
    \/ SampleAgain
    \/ DdpmStep
    \/ DdimStep
    \/ SampleReturn

PairSpec == PairInit /\ [][PairNext]_vars

----------------------------------------------------------------------------
(* Properties *)

Sampling == pc \in {"ddpm_loop", "ddim_loop", "sample_done"}

TimeOf(j) == time_pairs[j][1][1]
TimeNextOf(j) == time_pairs[j][2][1]

\* C2: for steps = N >= 1, get_sampling_timesteps(1, N) gives exactly N pairs,
\* each of batch shape 1; the first time is 1.0, the last time_next is 0.0,
\* time_next < time in every pair and successive times strictly decrease.
C2_TimestepsDescend ==
    (Sampling /\ steps >= 1) =>
        /\ Len(time_pairs) = steps
        /\ \A j \in DOMAIN time_pairs :
            /\ Len(time_pairs[j]) = 2
            /\ Len(time_pairs[j][1]) = 1 /\ Len(time_pairs[j][2]) = 1
            /\ Gt(TimeOf(j), TimeNextOf(j))
            /\ j > 1 => Gt(TimeOf(j - 1), TimeOf(j))
        /\ IsOne(TimeOf(1))
        /\ IsZero(TimeNextOf(steps))

C2_Witness == pc = "sample_done" /\ steps = MaxSteps /\ Len(time_pairs) = MaxSteps

\* C3: in ddpm_sample a step draws and adds Gaussian noise if and only if its
\* time_next is strictly greater than truncated_index; every other step sets
\* the field to the posterior mean exactly; with truncated_index >= 0 the
\* final step (time_next = 0) adds no noise.
C3_NoiseIffAboveTruncation ==
    (Sampling /\ ~use_ddim) =>
        /\ \A j \in DOMAIN trace :
            /\ trace[j].drew <=> Gt(trace[j].time_next, truncated_index)
            /\ ~Gt(trace[j].time_next, truncated_index) => trace[j].out = trace[j].mean
            /\ (IsZero(trace[j].time_next) /\ truncated_index[1] >= 0) =>
                   (~trace[j].drew /\ trace[j].out = trace[j].mean)
        /\ Len(draws) = 1 + Cardinality({j \in DOMAIN trace : trace[j].drew})

C3_Witness ==
    /\ pc = "sample_done" /\ ~use_ddim /\ steps = MaxSteps
    /\ truncated_index = <<1, 2>>
    /\ trace[1].drew /\ trace[1].out # trace[1].mean
    /\ ~trace[steps].drew

\* C6: a noise_schedule other than "linear" or "cosine" ends construction in
\* an error with no network created and no call ever started; "linear" and
\* "cosine" never end in the error, and once bound the schedule function is
\* the one the argument names, in every later state.
C6_FailFastConstruction ==
    /\ noise_schedule \notin {"linear", "cosine"} =>
        /\ status \in {"new", "error"}
        /\ log_snr = "unbound" /\ denoise_fn = "none" /\ pc = "idle"
    /\ noise_schedule \in {"linear", "cosine"} =>
        /\ status # "error"
        /\ status = "new" => ENABLED BindSchedule
        /\ status = "bound" => ENABLED CreateNetwork
        /\ status # "new" =>
              log_snr = (IF noise_schedule = "linear" THEN "beta_linear_log_snr"
                         ELSE "alpha_cosine_log_snr")
    /\ pc # "idle" => (status = "ready" /\ denoise_fn # "none")

C6_Witness == noise_schedule = "sigmoid" /\ status = "error" /\ denoise_fn = "none"

\* C8: a sampling call with steps = N makes exactly N transitions, one per
\* time pair in the order of the list (decreasing time), each running the
\* network on the field the previous transition produced (the initial noise
\* for the first); it can always take its next step until it returns, and it
\* returns the field after the last transition, whose time_next is 0.
C8_SequentialTransitions ==
    Sampling =>
        /\ Len(time_pairs) = steps
        /\ Len(trace) = k /\ k <= steps
        /\ \A j \in DOMAIN trace :
            /\ trace[j].time = TimeOf(j) /\ trace[j].time_next = TimeNextOf(j)
            /\ trace[j].input = (IF j = 1 THEN draws[1] ELSE trace[j - 1].out)
            /\ j > 1 => Gt(trace[j - 1].time, trace[j].time)
        /\ noise_feature = (IF k = 0 THEN draws[1] ELSE trace[k].out)
        /\ (pc # "sample_done" /\ k < steps) => ENABLED (DdpmStep \/ DdimStep)
        /\ (pc # "sample_done" /\ k = steps) => ENABLED SampleReturn
        /\ pc = "sample_done" =>
            /\ k = steps
            /\ result = noise_feature
            /\ steps >= 1 => IsZero(trace[steps].time_next)

C8_Witness ==
    /\ pc = "sample_done" /\ steps = MaxSteps /\ Len(trace) = MaxSteps
    /\ result = trace[MaxSteps].out

InRange(x) == \A r \in DOMAIN x : -Scale <= x[r] /\ x[r] <= Scale

StepLevels(j) ==
    [ls |-> LogSnr(log_snr, trace[j].time), ls_next |-> LogSnr(log_snr, trace[j].time_next)]

\* C9: in every step of both samplers the x_start that enters the update
\* formulas (the posterior mean, or pred_noise and the DDIM update) lies in
\* [-1, 1] elementwise and is the network's output clamped.
C9_XStartClamped ==
    Sampling =>
        \A j \in DOMAIN trace :
            LET lv == StepLevels(j)
                as == LogSnrToAlphaSigma(lv.ls)
                as_next == LogSnrToAlphaSigma(lv.ls_next)
                raw == Denoise(denoise_fn, trace[j].input, <<lv.ls>>, octree)
                x0 == trace[j].x_start
            IN /\ InRange(x0)
               /\ \A r \in DOMAIN x0 :
                     x0[r] = (IF raw[r] > Scale THEN Scale
                              ELSE IF raw[r] < -Scale THEN -Scale ELSE raw[r])
               /\ IF use_ddim
                  THEN trace[j].out =
                         DdimUpdate(x0, PredNoise(trace[j].input, x0, as[1], as[2]),
                                    as_next[1], as_next[2])
                  ELSE trace[j].mean =
                         Mean(trace[j].input, x0, as[1], as_next[1], C(lv.ls, lv.ls_next))

C9_Witness ==
    /\ pc = "sample_done" /\ steps >= 2
    /\ \E j \in DOMAIN trace : \E r \in DOMAIN trace[j].input :
          /\ Denoise(denoise_fn, trace[j].input, <<StepLevels(j).ls>>, octree)[r] > Scale
          /\ trace[j].x_start[r] = Scale

\* the rows an octree gives batch element e
RowsOf(o, e) == {r \in DOMAIN o.batch_id : o.batch_id[r] = e}

\* row r of xt is the noised row r of x_start, at its own element's level
NoisedRow(xt, r) ==
    LET as == LogSnrToAlphaSigma(NoiseLevel[octree.batch_id[r] + 1])
    IN /\ xt[r].src = r
       /\ xt[r].val = (x_start[r] * as[1]) \div Scale + (as[2] * xt[r].eps) \div Scale

\* C1: for every batch_id assignment (also one where an element's rows are
\* not contiguous) x_t has as many rows as x_start and row r of x_t is the
\* noised version of row r of x_start.
C1_RowOrderPreserved ==
    pc \in {"reduce", "train_done"} =>
        /\ Len(x_t) = Len(x_start)
        /\ \A r \in DOMAIN x_t : NoisedRow(x_t, r)

\* What the code does keep: the row count always, and the row order when
\* batch_id is non-decreasing (each element's rows contiguous, in batch order).
SortedIds(ids) == \A r \in DOMAIN ids : r > 1 => ids[r - 1] <= ids[r]

RowOrderPreservedWhenSorted ==
    pc \in {"reduce", "train_done"} =>
        /\ Len(x_t) = Len(x_start)
        /\ SortedIds(octree.batch_id) => \A r \in DOMAIN x_t : NoisedRow(x_t, r)

RECURSIVE SqErrSum(_)
SqErrSum(rows) ==
    IF rows = {} THEN 0
    ELSE LET r == CHOOSE q \in rows : TRUE
         IN ((pred[r] - x_start[r]) * (pred[r] - x_start[r])) \div Scale
                + SqErrSum(rows \ {r})

\* C5: training_loss returns batch_size entries, each a non-negative number,
\* the mean of (pred - x_start)^2 over the rows of that batch element, for
\* every batch_id assignment (also one where an element owns no row).
C5_LossPerElement ==
    pc = "train_done" =>
        /\ Len(result) = octree.batch_size
        /\ \A e \in 0 .. octree.batch_size - 1 :
            /\ ~result[e + 1].nan
            /\ result[e + 1].val >= 0
            /\ result[e + 1].val =
                  SqErrSum(RowsOf(octree, e)) \div Cardinality(RowsOf(octree, e))

\* What the code does return: batch_size entries, the non-negative mean for
\* an element that owns a row and nan for one that owns none.
LossOfOwnedRows ==
    pc = "train_done" =>
        /\ Len(result) = octree.batch_size
        /\ \A e \in 0 .. octree.batch_size - 1 :
            IF RowsOf(octree, e) = {} THEN result[e + 1].nan
            ELSE /\ ~result[e + 1].nan
                 /\ result[e + 1].val >= 0
                 /\ result[e + 1].val =
                       SqErrSum(RowsOf(octree, e)) \div Cardinality(RowsOf(octree, e))

----------------------------------------------------------------------------
(* Properties of two calls *)

Second == prev # <<>> /\ Sampling
First == prev[1]

\* the steps the second call has made are those of the first call
SameSteps ==
    \A j \in DOMAIN trace :
        /\ j <= Len(First.trace)
        /\ trace[j].input = First.trace[j].input
        /\ trace[j].x_start = First.trace[j].x_start
        /\ trace[j].out = First.trace[j].out

\* C4: ddim_sample is deterministic: a second run from the same initial
\* noise, octree, steps and network goes through the same field at every
\* step and returns the same output, and no DDIM step draws a random value.
C4_DdimDeterministic ==
    (Sampling /\ use_ddim) =>
        /\ Len(draws) = 1
        /\ \A j \in DOMAIN trace : ~trace[j].drew
        /\ (Second /\ truncated_index = First.truncated_index
                /\ draws[1] = First.draws[1]) =>
              /\ SameSteps
              /\ pc = "sample_done" =>
                    (Len(trace) = Len(First.trace) /\ result = First.result)

C4_Witness ==
    /\ Second /\ use_ddim /\ pc = "sample_done" /\ steps = PairSteps
    /\ truncated_index = First.truncated_index
    /\ draws[1] = First.draws[1]
    /\ Len(trace) = PairSteps
    /\ result = First.result

\* the update a sampler step makes from its input
StepFollowsSampler(j) ==
    LET lv == StepLevels(j)
        as == LogSnrToAlphaSigma(lv.ls)
        as_next == LogSnrToAlphaSigma(lv.ls_next)
        x0 == trace[j].x_start
    IN IF use_ddim
       THEN /\ ~trace[j].drew
            /\ trace[j].out = DdimUpdate(x0, PredNoise(trace[j].input, x0, as[1], as[2]),
                                         as_next[1], as_next[2])
       ELSE /\ trace[j].mean =
                  Mean(trace[j].input, x0, as[1], as_next[1], C(lv.ls, lv.ls_next))
            /\ trace[j].drew <=> Gt(trace[j].time_next, truncated_index)
            /\ ~trace[j].drew => trace[j].out = trace[j].mean

\* C7: sample runs the DDIM sampler when use_ddim holds and the DDPM sampler
\* otherwise, from freshly drawn noise of the reference field's shape, and
\* what it returns does not depend on the reference field's values: two
\* calls with reference fields of one shape, the same steps, truncated_index
\* and random draws return the same field.
C7_SampleIgnoresReferenceValues ==
    Sampling =>
        /\ pc = "ddim_loop" => use_ddim
        /\ pc = "ddpm_loop" => ~use_ddim
        /\ \A j \in DOMAIN trace : StepFollowsSampler(j)
        /\ Len(draws[1]) = Len(data)
        /\ (IF k = 0 THEN noise_feature ELSE trace[1].input) = draws[1]
        /\ (Second /\ pc = "sample_done" /\ truncated_index = First.truncated_index
                /\ draws = First.draws) =>
              result = First.result

C7_Witness ==
    /\ Second /\ pc = "sample_done" /\ ~use_ddim /\ steps = PairSteps
    /\ data # First.data
    /\ truncated_index = First.truncated_index
    /\ draws = First.draws /\ Len(draws) >= 2
    /\ result = First.result

\* C10: truncated_index has no effect on DDIM sampling: from the same
\* initial noise a DDIM call returns the same field whatever truncated_index
\* is; in DDPM it only decides which steps add noise: a step given the same
\* input computes the same x_start and posterior mean.
C10_TruncationOnlyInDdpm ==
    Second =>
        IF use_ddim
        THEN draws[1] = First.draws[1] =>
                /\ SameSteps
                /\ pc = "sample_done" => result = First.result
        ELSE \A j \in DOMAIN trace :
                (j <= Len(First.trace) /\ trace[j].input = First.trace[j].input) =>
                    /\ trace[j].x_start = First.trace[j].x_start
                    /\ trace[j].mean = First.trace[j].mean

C10_Witness ==
    /\ Second /\ use_ddim /\ pc = "sample_done" /\ steps = PairSteps
    /\ truncated_index = <<-1, 1>> /\ First.truncated_index = <<1, 2>>
    /\ draws[1] = First.draws[1]
    /\ result = First.result

====
